---- MODULE Spec2Model ----
(***************************************************************************)
(* Model of the road sign inventory tool: the upload handler index() of    *)
(* app/routes.py and the frame pipeline process_video() of                 *)
(* app/processing/video_processor.py that it calls.                        *)
(*                                                                         *)
(* One request is followed from its arrival to its response.  pc is the    *)
(* position of the single thread of control, first in index(), then in     *)
(* process_video(), then back in index().  The external libraries (flask,  *)
(* cv2, ultralytics) are the environment: what they return or raise is     *)
(* chosen with \E from small sets.                                         *)
(*                                                                         *)
(* Abstractions: a frame's pixels are not modelled; annotated_frame is     *)
(* the number of box outlines drawn on it (boxes) together with the loop   *)
(* locals of the last detection drawn.  Detection coordinates are the      *)
(* values after the int() conversion of line 89.  The confidence score     *)
(* and the text width take no part in any control decision and are left    *)
(* out of the label.                                                       *)
(***************************************************************************)
EXTENDS Integers, Sequences, FiniteSets, TLC

\* ------------------------------------------------------------------ bounds
MaxFrames == 2      \* frames in the input video: 0..MaxFrames
MaxDets == 1        \* detections returned for one frame: 0..MaxDets
MaxX == 1           \* x coordinates of a box: 0..MaxX
MaxY == 13          \* y1 of a box: -1..MaxY
MaxText == 2        \* text_height and baseline of getTextSize: 1..MaxText
MaxClassId == 2     \* class ids returned by the model: 0..MaxClassId

\* ------------------------------------------------------- program constants
LabelGap == 10      \* the 10 of "y1 - 10"

\* config.ALLOWED_EXTENSIONS, each extension a sequence of characters
ALLOWED_EXTENSIONS ==
    { <<"m","p","4">>, <<"a","v","i">>, <<"m","o","v">>, <<"m","k","v">> }

\* model.names of the loaded model: class id -> name
class_names == (0 :> "stop") @@ (1 :> "yield")

\* the video properties read from the capture
frame_width == MaxX
frame_height == MaxY

VARIABLES
    pc,              \* position of the thread of control
    response,        \* what index() returned: "none" until it returns
    flashes,         \* categories of the flash() calls, in order
    log_errors,      \* the logger.error calls of index() about failed removals
    upload_exists,   \* the file at upload_path exists
    output_exists,   \* the file at output_path exists
    exc,             \* the raise site of the exception index() caught
    model,           \* "unloaded", "loaded" or "failed"
    cap,             \* "none", "closed" (isOpened() false), "open", "released"
    video_writer,    \* "none", "closed" (isOpened() false), "open", "released"
    releases,        \* number of release() calls on cap and on video_writer
    num_frames,      \* frames the input video holds
    frame_count,     \* frames successfully read
    frames_written,  \* video_writer.write calls that returned
    predict_failed,  \* model.predict calls that raised (one log line each)
    n_dets,          \* len(detections) of the current frame
    i,               \* detections of the current frame handled so far
    boxes,           \* box outlines drawn on annotated_frame
    det,             \* loop locals x1, y1, x2, y2, class_id
    label,           \* loop local label
    text_y,          \* loop local text_y
    text_height,     \* getTextSize height of the label font
    baseline         \* getTextSize baseline of the label font

vars == << pc, response, flashes, log_errors, upload_exists, output_exists, exc,
           model, cap, video_writer, releases, num_frames, frame_count,
           frames_written, predict_failed, n_dets, i, boxes, det, label,
           text_y, text_height, baseline >>

handler_vars == << response, flashes, log_errors, upload_exists >>
stream_vars == << model, cap, video_writer, releases, output_exists >>
count_vars == << frame_count, frames_written, predict_failed >>
loop_vars == << n_dets, i, boxes, det, label, text_y >>
input_vars == << num_frames, text_height, baseline >>

\* ----------------------------------------------------------- config.py
Lower(c) ==
    CASE c = "M" -> "m" [] c = "P" -> "p" [] c = "A" -> "a" [] c = "V" -> "v"
      [] c = "I" -> "i" [] c = "O" -> "o" [] c = "K" -> "k" [] c = "T" -> "t"
      [] c = "X" -> "x" [] OTHER -> c

LowerAll(s) == [k \in 1..Len(s) |-> Lower(s[k])]

HasDot(s) == \E k \in 1..Len(s) : s[k] = "."

\* filename.rsplit('.', 1)[1]: what follows the last dot
AfterLastDot(s) ==
    LET last == CHOOSE k \in 1..Len(s) :
                    s[k] = "." /\ \A m \in (k+1)..Len(s) : s[m] # "."
    IN  SubSeq(s, last + 1, Len(s))

allowed_file(filename) ==
    HasDot(filename) /\ LowerAll(AfterLastDot(filename)) \in ALLOWED_EXTENSIONS

\* the filenames a request may carry
Filenames ==
    { << >>, <<"a",".","m","p","4">>, <<"a",".","M","K","V">>,
      <<"a",".","t","x","t">>, <<"m","p","4">>, <<"a",".","b",".","a","v","i">> }

\* ------------------------------------------------------ video_processor.py
\* the rows of results[0].boxes.data after int(): boxes reaching the right
\* and bottom edge of the frame, valid ones, degenerate ones (x1 = x2 or
\* y1 = y2) and out-of-range ones (y1 < 0)
Dets ==
    [ x1 : 0..MaxX, y1 : -1..MaxY, x2 : {MaxX}, y2 : {MaxY},
      class_id : 0..MaxClassId ]

\* a detection as the data model wants it: x1 < x2 and y1 < y2, in the frame
ValidBox(d) ==
    /\ 0 <= d.x1 /\ d.x1 < d.x2 /\ d.x2 <= frame_width
    /\ 0 <= d.y1 /\ d.y1 < d.y2 /\ d.y2 <= frame_height

\* variant: the fallback name leaves out the class id
ClassLabelNoId(class_id) ==
    IF class_id \in DOMAIN class_names
    THEN class_names[class_id]
    ELSE "Class_"

\* class_names.get(class_id, f"Class_{class_id}")
ClassLabel(class_id) ==
    IF class_id \in DOMAIN class_names
    THEN class_names[class_id]
    ELSE "Class_" \o ToString(class_id)

\* text_y = y1 - 10 if y1 - 10 > text_height else y1 + text_height + baseline
TextY(y1, th, bl) ==
    IF y1 - LabelGap > th THEN y1 - LabelGap ELSE y1 + th + bl

\* top edge of the filled label background rectangle
LabelTop(ty, th, bl) == ty - th - bl

\* variant: only valid boxes are outlined
DrawnBoxesValidOnly(b, d) == IF ValidBox(d) THEN b + 1 ELSE b

\* line 98: cv2.rectangle is called for every detection of the loop
DrawnBoxes(b, d) == b + 1

\* variant: the file is never removed
AfterRemoveKeeps(exists, fails) == exists

\* os.remove guarded by try/except OSError: the file is left only if the
\* removal fails
AfterRemove(exists, fails) == exists /\ fails

Init ==
    /\ pc = "request"
    /\ response = "none"
    /\ flashes = << >>
    /\ log_errors = {}
    /\ upload_exists = FALSE
    /\ output_exists = FALSE
    /\ exc = "none"
    /\ model = "unloaded"
    /\ cap = "none"
    /\ video_writer = "none"
    /\ releases = [cap |-> 0, writer |-> 0]
    /\ num_frames \in 0..MaxFrames
    /\ frame_count = 0
    /\ frames_written = 0
    /\ predict_failed = 0
    /\ n_dets = 0
    /\ i = 0
    /\ boxes = 0
    /\ det = [x1 |-> 0, y1 |-> 0, x2 |-> 0, y2 |-> 0, class_id |-> 0]
    /\ label = ""
    /\ text_y = 0
    /\ text_height \in 1..MaxText
    /\ baseline \in 1..MaxText

\* an exception leaves process_video (or file.save) and reaches the
\* "except Exception" clause of index()
Raise(site) ==
    /\ exc' = site
    /\ pc' = "except"

\* ------------------------------------------------------------- index()
\* GET: the upload form
IndexGet ==
    /\ pc = "request"
    /\ response' = "index"
    /\ pc' = "done"
    /\ UNCHANGED << flashes, log_errors, upload_exists, exc, stream_vars,
                    count_vars, loop_vars, input_vars >>

\* POST without a file part
IndexNoFilePart ==
    /\ pc = "request"
    /\ flashes' = Append(flashes, "danger")
    /\ response' = "redirect"
    /\ pc' = "done"
    /\ UNCHANGED << log_errors, upload_exists, exc, stream_vars, count_vars,
                    loop_vars, input_vars >>

\* POST with a file part: empty filename, disallowed type, or accepted
IndexPostFile ==
    /\ pc = "request"
    /\ \E filename \in Filenames :
          IF filename = << >> \/ ~allowed_file(filename)
          THEN /\ flashes' = Append(flashes, "warning")
               /\ response' = "redirect"
               /\ pc' = "done"
          ELSE /\ pc' = "save"
               /\ UNCHANGED << flashes, response >>
    /\ UNCHANGED << log_errors, upload_exists, exc, stream_vars, count_vars,
                    loop_vars, input_vars >>

\* file.save(upload_path) and the "uploaded successfully" flash
SaveUpload ==
    /\ pc = "save"
    /\ \/ /\ upload_exists' = TRUE
          /\ flashes' = Append(flashes, "info")
          /\ pc' = "load_model"
          /\ UNCHANGED exc
       \/ /\ upload_exists' \in BOOLEAN      \* possibly partially saved
          /\ Raise("save")
          /\ UNCHANGED flashes
    /\ UNCHANGED << response, log_errors, stream_vars, count_vars, loop_vars,
                    input_vars >>

\* ------------------------------------------------------ process_video()
\* variant: the load failure is logged but not re-raised
LoadModelSwallow ==
    /\ pc = "load_model"
    /\ \/ /\ model' = "loaded"
       \/ /\ model' = "failed"
    /\ pc' = "open_cap"
    /\ UNCHANGED << handler_vars, exc, cap, video_writer, releases,
                    output_exists, count_vars, loop_vars, input_vars >>

\* lines 27-36: load the model; a failure is logged and re-raised
LoadModel ==
    /\ pc = "load_model"
    /\ \/ /\ model' = "loaded"
          /\ pc' = "open_cap"
          /\ UNCHANGED exc
       \/ /\ model' = "failed"
          /\ Raise("load")
    /\ UNCHANGED << handler_vars, cap, video_writer, releases, output_exists,
                    count_vars, loop_vars, input_vars >>

\* variant: the writer is created before cap.isOpened() is checked
OpenCaptureLateCheck ==
    /\ pc = "open_cap"
    /\ \/ /\ cap' = "open"
          /\ pc' = "open_writer"
          /\ UNCHANGED << exc, video_writer, output_exists >>
       \/ /\ cap' = "closed"
          /\ video_writer' = "closed"
          /\ output_exists' \in BOOLEAN
          /\ Raise("open_source")
    /\ UNCHANGED << handler_vars, model, releases, count_vars, loop_vars,
                    input_vars >>

\* lines 39-42: open the input video
OpenCapture ==
    /\ pc = "open_cap"
    /\ \/ /\ cap' = "open"
          /\ pc' = "open_writer"
          /\ UNCHANGED exc
       \/ /\ cap' = "closed"
          /\ Raise("open_source")
    /\ UNCHANGED << handler_vars, model, video_writer, releases, output_exists,
                    count_vars, loop_vars, input_vars >>

\* variant: the capture is not released when the writer fails to open
OpenWriterLeak ==
    /\ pc = "open_writer"
    /\ \/ /\ video_writer' = "open"
          /\ output_exists' = TRUE
          /\ pc' = "read"
          /\ UNCHANGED exc
       \/ /\ video_writer' = "closed"
          /\ output_exists' \in BOOLEAN
          /\ Raise("open_sink")
    /\ UNCHANGED << handler_vars, model, cap, releases, count_vars, loop_vars,
                    input_vars >>

\* lines 45-58: create the video writer; if it is not opened, release the
\* capture and raise IOError
OpenWriter ==
    /\ pc = "open_writer"
    /\ \/ /\ video_writer' = "open"
          /\ output_exists' = TRUE
          /\ pc' = "read"
          /\ UNCHANGED << exc, cap, releases >>
       \/ /\ video_writer' = "closed"
          /\ output_exists' \in BOOLEAN      \* the backend may leave a file
          /\ cap' = "released"
          /\ releases' = [releases EXCEPT !.cap = @ + 1]
          /\ Raise("open_sink")
    /\ UNCHANGED << handler_vars, model, count_vars, loop_vars, input_vars >>

\* lines 64-69: read the next frame, or leave the loop at the end
ReadFrame ==
    /\ pc = "read"
    /\ IF frame_count < num_frames
       THEN /\ frame_count' = frame_count + 1
            /\ pc' = "predict"
       ELSE /\ pc' = "release"
            /\ UNCHANGED frame_count
    /\ UNCHANGED << handler_vars, exc, stream_vars, frames_written,
                    predict_failed, loop_vars, input_vars >>

\* variant: after a failed inference the frame is written unannotated
PredictKeepsFrame ==
    /\ pc = "predict"
    /\ \/ /\ pc' = "extract"
          /\ UNCHANGED predict_failed
       \/ /\ predict_failed' = predict_failed + 1
          /\ pc' = "write"
    /\ UNCHANGED << handler_vars, exc, stream_vars, frame_count,
                    frames_written, loop_vars, input_vars >>

\* variant: a failed inference is not caught
PredictRaises ==
    /\ pc = "predict"
    /\ \/ /\ pc' = "extract"
          /\ UNCHANGED << exc, predict_failed >>
       \/ /\ predict_failed' = predict_failed + 1
          /\ Raise("loop")
    /\ UNCHANGED << handler_vars, stream_vars, frame_count, frames_written,
                    loop_vars, input_vars >>

\* lines 75-80: inference; a failure is logged and the frame is skipped
Predict ==
    /\ pc = "predict"
    /\ \/ /\ pc' = "extract"
          /\ UNCHANGED predict_failed
       \/ /\ predict_failed' = predict_failed + 1
          /\ pc' = "read"
    /\ UNCHANGED << handler_vars, exc, stream_vars, frame_count,
                    frames_written, loop_vars, input_vars >>

\* lines 83-86: copy the frame and extract the detections
Extract ==
    /\ pc = "extract"
    /\ \/ /\ \E n \in 0..MaxDets :
                /\ n_dets' = n
                /\ pc' = IF n > 0 THEN "draw" ELSE "write"
          /\ i' = 0
          /\ boxes' = 0
          /\ UNCHANGED exc
       \/ /\ Raise("loop")
          /\ UNCHANGED << n_dets, i, boxes >>
    /\ UNCHANGED << handler_vars, stream_vars, count_vars, det, label, text_y,
                    input_vars >>

\* lines 87-105: one iteration of the loop over the detections
DrawDetection ==
    /\ pc = "draw"
    /\ i < n_dets
    /\ \/ /\ \E d \in Dets :
                /\ det' = d
                /\ label' = ClassLabel(d.class_id)
                /\ text_y' = TextY(d.y1, text_height, baseline)
                /\ boxes' = DrawnBoxes(boxes, d)
          /\ i' = i + 1
          /\ pc' = IF i + 1 = n_dets THEN "write" ELSE "draw"
          /\ UNCHANGED exc
       \/ /\ Raise("loop")
          /\ UNCHANGED << i, boxes, det, label, text_y >>
    /\ UNCHANGED << handler_vars, stream_vars, count_vars, n_dets, input_vars >>

\* line 109: write the annotated frame
WriteFrame ==
    /\ pc = "write"
    /\ \/ /\ frames_written' = frames_written + 1
          /\ pc' = "read"
          /\ UNCHANGED exc
       \/ /\ Raise("loop")
          /\ UNCHANGED frames_written
    /\ UNCHANGED << handler_vars, stream_vars, frame_count, predict_failed,
                    loop_vars, input_vars >>

\* lines 112-116: release both streams and return
Release ==
    /\ pc = "release"
    /\ cap' = "released"
    /\ video_writer' = "released"
    /\ releases' = [cap |-> releases.cap + 1, writer |-> releases.writer + 1]
    /\ pc' = "success"
    /\ UNCHANGED << handler_vars, exc, model, output_exists, count_vars,
                    loop_vars, input_vars >>

\* ------------------------------------------------- index(), after the call
\* lines 60-70: success flash, removal of the upload, results page
Success ==
    /\ pc = "success"
    /\ flashes' = Append(flashes, "success")
    /\ \E fails \in BOOLEAN :
          /\ upload_exists' = AfterRemove(upload_exists, fails)
          /\ log_errors' = IF fails THEN log_errors \cup {"del_upload"}
                                    ELSE log_errors
    /\ response' = "results"
    /\ pc' = "done"
    /\ UNCHANGED << exc, stream_vars, count_vars, loop_vars, input_vars >>

\* lines 72-87: the except clause
ExceptHandler ==
    /\ pc = "except"
    /\ flashes' = Append(flashes, "danger")
    /\ \E upFails, outFails \in BOOLEAN :
          /\ upload_exists' = AfterRemove(upload_exists, upFails)
          /\ output_exists' = AfterRemove(output_exists, outFails)
          /\ log_errors' = log_errors
                \cup (IF upload_exists /\ upFails THEN {"del_upload"} ELSE {})
                \cup (IF output_exists /\ outFails THEN {"del_output"} ELSE {})
    /\ response' = "redirect"
    /\ pc' = "done"
    /\ UNCHANGED << exc, model, cap, video_writer, releases, count_vars,
                    loop_vars, input_vars >>

Next ==
    \/ IndexGet
    \/ IndexNoFilePart
    \/ IndexPostFile
    \/ SaveUpload
    \/ LoadModel
    \/ OpenCapture
    \/ OpenWriter
    \/ ReadFrame
    \/ Predict
    \/ Extract
    \/ DrawDetection
    \/ WriteFrame
    \/ Release
    \/ Success
    \/ ExceptHandler

Spec == Init /\ [][Next]_vars

TypeOK ==
    /\ pc \in { "request", "save", "load_model", "open_cap", "open_writer",
                "read", "predict", "extract", "draw", "write", "release",
                "success", "except", "done" }
    /\ response \in { "none", "index", "redirect", "results" }
    /\ exc \in { "none", "save", "load", "open_source", "open_sink", "loop" }
    /\ model \in { "unloaded", "loaded", "failed" }
    /\ cap \in { "none", "closed", "open", "released" }
    /\ video_writer \in { "none", "closed", "open", "released" }
    /\ frame_count \in 0..num_frames
    /\ frames_written \in 0..num_frames
    /\ det \in Dets \cup {[x1 |-> 0, y1 |-> 0, x2 |-> 0, y2 |-> 0, class_id |-> 0]}

\* ------------------------------------------------------------ properties
\* process_video returned normally to index()
Returned == pc = "success" \/ (pc = "done" /\ response = "results")

\* the loop locals hold the detection handled last in the current frame
InFrame == pc \in {"draw", "write"} /\ i >= 1

\* C1 as stated: when process_video returns, the number of frames written
\* equals the number of frames read, frames whose detection failed included.
C1_WrittenEqualsRead == Returned => frames_written = frame_count

\* C1 amended: a frame whose detection fails is skipped, not written.  When
\* process_video returns, frames written = frames read - failed predictions;
\* when it ends by an exception raised in the loop, the frame in flight is
\* not written either.
C1_WrittenEqualsReadMinusFailed ==
    /\ Returned => frames_written = frame_count - predict_failed
    /\ exc = "loop" => frames_written = frame_count - predict_failed - 1

C1_Witness == Returned /\ predict_failed >= 1 /\ frames_written >= 1

\* C2: when an exception other than a caught predict failure leaves the
\* frame loop, the capture and the writer have been released, the writer
\* exactly once.
C2_ReleasedOnLoopException ==
    exc = "loop" =>
        /\ cap = "released"
        /\ video_writer = "released"
        /\ releases.writer = 1

\* C3: when the capture opened and the writer did not, the capture is
\* released (once) before IOError is raised; no exception of the
\* stream-opening step leaves an open capture behind.
C3_CaptureReleasedOnSinkFailure ==
    /\ video_writer = "closed" =>
            cap = "released" /\ releases.cap = 1 /\ exc = "open_sink"
    /\ exc \in {"open_source", "open_sink"} => cap # "open"

C3_Witness == video_writer = "closed" /\ exc = "open_sink" /\ pc = "except"

\* C4: when loading the model fails, process_video raises to its caller
\* before any frame I/O: no capture, no writer, no frame read or written.
C4_NoFrameIOAfterLoadFailure ==
    model = "failed" =>
        /\ exc = "load"
        /\ pc \in {"except", "done"}
        /\ cap = "none"
        /\ video_writer = "none"
        /\ ~output_exists
        /\ frame_count = 0
        /\ frames_written = 0

C4_Witness == model = "failed" /\ pc = "done" /\ response = "redirect"

\* C5: when the input video cannot be opened, process_video raises IOError,
\* the video writer is never constructed and no output file is created.
C5_NoOutputWhenSourceUnreadable ==
    cap = "closed" =>
        /\ exc = "open_source"
        /\ pc \in {"except", "done"}
        /\ video_writer = "none"
        /\ ~output_exists

C5_Witness == cap = "closed" /\ pc = "done" /\ ~output_exists

\* C6: a predict failure keeps process_video in the frame loop with both
\* streams open and no exception raised, and a run that returns has read
\* every frame of the input and released both streams once, however many
\* predictions failed.
C6_PredictFailureRecoverable ==
    /\ [][ (pc = "predict" /\ predict_failed' = predict_failed + 1) =>
              /\ pc' = "read"
              /\ exc' = "none"
              /\ cap' = "open"
              /\ video_writer' = "open" ]_vars
    /\ [](Returned =>
              /\ frame_count = num_frames
              /\ exc = "none"
              /\ cap = "released"
              /\ video_writer = "released"
              /\ releases = [cap |-> 1, writer |-> 1])

C6_Witness ==
    Returned /\ num_frames >= 2 /\ predict_failed = num_frames

C8_LabelNotClippedAtTop ==
    (InFrame /\ det.y1 >= 0 /\ ValidBox(det)) =>
        LabelTop(text_y, text_height, baseline) >= 0

\* C9: a class id missing from the name table is labelled "Class_<id>" and
\* raises nothing; a class id of the table gets the table's name.
C9_ClassNameFallback ==
    InFrame =>
        /\ det.class_id \notin DOMAIN class_names =>
                label = "Class_" \o ToString(det.class_id)
        /\ det.class_id \in DOMAIN class_names =>
                label = class_names[det.class_id]
        /\ exc = "none"

C9_Witness == InFrame /\ det.class_id = 2 /\ label = "Class_2"

\* C10: when saving the upload or process_video raises, index() answers
\* with a redirect after an error flash, and neither the upload nor the
\* output file remains unless its removal failed and was logged.
C10_HandlerCleansUp ==
    (pc = "done" /\ exc # "none") =>
        /\ response = "redirect"
        /\ Len(flashes) >= 1
        /\ flashes[Len(flashes)] = "danger"
        /\ output_exists => "del_output" \in log_errors
        /\ upload_exists => "del_upload" \in log_errors

C10_Witness ==
    /\ pc = "done"
    /\ exc = "loop"
    /\ frames_written >= 1
    /\ ~output_exists
    /\ ~upload_exists
====
